---- MODULE Spec2Model ----
(***************************************************************************)
(* Model of the ftdi-mpsse command encoders (src/src/lib.rs):              *)
(*                                                                         *)
(*   - the dynamic builder MpsseCmdBuilder, a Vec<u8> that every method    *)
(*     consumes and returns (lines 410-945);                               *)
(*   - the static builder, the mpsse! macro, whose recursion threads the   *)
(*     running read length $read_len and the output tokens [$($out)*]      *)
(*     through one rule per command (lines 1096-1275).                     *)
(*                                                                         *)
(* One action per operation.  An action hands the same command, with the   *)
(* same arguments, to both builders, so that the state holds the dynamic   *)
(* buffer and the macro's accumulators side by side.                       *)
(*                                                                         *)
(* Two scenarios are drawn by Init:                                        *)
(*   "single" : one command, arguments drawn from wide sets (every byte    *)
(*              value, every length around the limits), applied to a       *)
(*              builder that may hold a prefix (with_vec);                 *)
(*   "script" : up to MaxCmds commands in sequence, arguments drawn from   *)
(*              small representative sets.                                 *)
(***************************************************************************)
EXTENDS Integers, Sequences, FiniteSets, TLC

VARIABLES
    scenario,      \* "single" | "script": which argument sets the run draws from
    base,          \* the Vec<u8> the dynamic builder was created from (new: <<>>)
    buf,           \* MpsseCmdBuilder.0, the dynamic builder's Vec<u8>
    dyn,           \* "building" | "panicked" | "ill_typed": position of the dynamic construction
    ret,           \* what the last call of the dynamic builder handed to its caller
    out,           \* mpsse!: the bytes of [$($out)*]
    read_len,      \* mpsse!: the value of $read_len
    consts,        \* mpsse!: the `const X = cmd(..)` items emitted so far, in order
    st,            \* mpsse!: "expanding" | "rejected" | "emitted"
    command_data,  \* mpsse!: the array bound by the emit rule
    READ_LEN,      \* mpsse!: the constant bound by the emit rule
    xfer,          \* MpsseCmdExecutor::xfer: the call under way, the calls it has made
    script,        \* the commands issued so far, each with its arguments
    prev           \* both builders as they were before the last command

vars == <<scenario, base, buf, dyn, ret, out, read_len, consts, st,
          command_data, READ_LEN, xfer, script, prev>>

(***************************************************************************)
(* Bounds of the model.                                                    *)
(***************************************************************************)
MaxCmds == 3

(***************************************************************************)
(* Integer helpers: Rust's &, |, >> and `as u8` on unsigned values.        *)
(***************************************************************************)
RECURSIVE BitAnd(_, _)
BitAnd(a, b) ==
    IF a = 0 \/ b = 0 THEN 0
    ELSE (a % 2) * (b % 2) + 2 * BitAnd(a \div 2, b \div 2)

RECURSIVE BitOr(_, _)
BitOr(a, b) ==
    IF a = 0 THEN b
    ELSE IF b = 0 THEN a
    ELSE (IF (a % 2) + (b % 2) > 0 THEN 1 ELSE 0) + 2 * BitOr(a \div 2, b \div 2)

RECURSIVE Shr(_, _)
Shr(a, k) == IF k = 0 THEN a ELSE Shr(a \div 2, k - 1)

\* `x as u8` for an integer x (two's complement truncation).
AsU8(x) == x % 256

(***************************************************************************)
(* Opcode tables: each enum as the function from variant to discriminant.  *)
(* `mode.into()` and `X as u8` are the application of the table.           *)
(***************************************************************************)
MpsseCmd ==
    [ SetDataBitsLowbyte      |-> 128,   \* 0x80
      GetDataBitsLowbyte      |-> 129,   \* 0x81
      SetDataBitsHighbyte     |-> 130,   \* 0x82
      GetDataBitsHighbyte     |-> 131,   \* 0x83
      EnableLoopback          |-> 132,   \* 0x84
      DisableLoopback         |-> 133,   \* 0x85
      SetClockFrequency       |-> 134,   \* 0x86
      SendImmediate           |-> 135,   \* 0x87
      WaitOnIOHigh            |-> 136,   \* 0x88
      WaitOnIOLow             |-> 137,   \* 0x89
      DisableClockDivide      |-> 138,   \* 0x8A
      EnableClockDivide       |-> 139,   \* 0x8B
      Enable3PhaseClocking    |-> 140,   \* 0x8C
      Disable3PhaseClocking   |-> 141,   \* 0x8D
      EnableAdaptiveClocking  |-> 150,   \* 0x96
      DisableAdaptiveClocking |-> 151 ]  \* 0x97

ClockDataOut == [MsbPos |-> 16, MsbNeg |-> 17, LsbPos |-> 24, LsbNeg |-> 25]
ClockBitsOut == [MsbPos |-> 18, MsbNeg |-> 19, LsbPos |-> 26, LsbNeg |-> 27]
ClockDataIn  == [MsbPos |-> 32, MsbNeg |-> 36, LsbPos |-> 40, LsbNeg |-> 44]
\* Mutant: the bit-read modes carry the discriminants of the byte-read modes.
ClockBitsIn_on_byte_read_opcodes ==
    [MsbPos |-> 32, MsbNeg |-> 36, LsbPos |-> 40, LsbNeg |-> 44]

ClockBitsIn  == [MsbPos |-> 34, MsbNeg |-> 38, LsbPos |-> 42, LsbNeg |-> 46]
ClockData    == [MsbPosIn |-> 49, MsbNegIn |-> 52, LsbPosIn |-> 57, LsbNegIn |-> 60]
ClockBits    == [MsbPosIn |-> 51, MsbNegIn |-> 54, LsbPosIn |-> 59, LsbNegIn |-> 62]
ClockTMSOut  == [PosEdge |-> 74, NegEdge |-> 75]
ClockTMS ==
    [ PosTMSPosTDO |-> 106,   \* 0x6A
      PosTMSNegTDO |-> 110,   \* 0x6E
      NegTMSPosTDO |-> 107,   \* 0x6B
      NegTMSNegTDO |-> 111 ]  \* 0x6F

(***************************************************************************)
(* The dynamic builder.  A method takes the Vec<u8> it consumes (self) and *)
(* yields the Vec<u8> it returns; a failed assert! yields a panic, with    *)
(* the vector as it was when the assertion ran.                            *)
(***************************************************************************)
Returns(v) == [self |-> v, end |-> "returned"]

Panics(v) == [self |-> v, end |-> "panicked"]

new == <<>>

with_vec(vec) == vec

as_slice(self) == self

\* Mutant: the second divisor byte is taken from bits 16..23.
set_clock_second_byte_from_bit_16(self, divisor, clkdiv) ==
    LET s1 == CASE clkdiv = "SomeTrue"  -> Append(self, MpsseCmd.EnableClockDivide)
                [] clkdiv = "SomeFalse" -> Append(self, MpsseCmd.DisableClockDivide)
                [] clkdiv = "None"      -> self
        s2 == Append(s1, MpsseCmd.SetClockFrequency)
        s3 == Append(s2, AsU8(BitAnd(divisor, 255)))
        s4 == Append(s3, AsU8(BitAnd(Shr(divisor, 16), 255)))
    IN  Returns(s4)

set_clock(self, divisor, clkdiv) ==
    LET s1 == CASE clkdiv = "SomeTrue"  -> Append(self, MpsseCmd.EnableClockDivide)
                [] clkdiv = "SomeFalse" -> Append(self, MpsseCmd.DisableClockDivide)
                [] clkdiv = "None"      -> self
        s2 == Append(s1, MpsseCmd.SetClockFrequency)
        s3 == Append(s2, AsU8(BitAnd(divisor, 255)))
        s4 == Append(s3, AsU8(BitAnd(Shr(divisor, 8), 255)))
    IN  Returns(s4)

enable_loopback(self) == Returns(Append(self, MpsseCmd.EnableLoopback))

disable_loopback(self) == Returns(Append(self, MpsseCmd.DisableLoopback))

disable_3phase_data_clocking(self) ==
    Returns(Append(self, MpsseCmd.Disable3PhaseClocking))

enable_3phase_data_clocking(self) ==
    Returns(Append(self, MpsseCmd.Enable3PhaseClocking))

enable_adaptive_data_clocking(self) ==
    Returns(Append(self, MpsseCmd.EnableAdaptiveClocking))

\* Mutant: the body of enable_adaptive_data_clocking, copied unchanged.
disable_adaptive_data_clocking_as_enable(self) ==
    Returns(Append(self, MpsseCmd.EnableAdaptiveClocking))

disable_adaptive_data_clocking(self) ==
    Returns(Append(self, MpsseCmd.DisableAdaptiveClocking))

\* Mutant: the direction byte is pushed before the state byte.
set_gpio_lower_direction_first(self, state, direction) ==
    Returns(self \o <<MpsseCmd.SetDataBitsLowbyte, direction, state>>)

set_gpio_lower(self, state, direction) ==
    Returns(self \o <<MpsseCmd.SetDataBitsLowbyte, state, direction>>)

set_gpio_upper(self, state, direction) ==
    Returns(self \o <<MpsseCmd.SetDataBitsHighbyte, state, direction>>)

gpio_lower(self) == Returns(Append(self, MpsseCmd.GetDataBitsLowbyte))

gpio_upper(self) == Returns(Append(self, MpsseCmd.GetDataBitsHighbyte))

\* Mutant: a send_immediate that directly follows another one is dropped.
send_immediate_deduplicated(self) ==
    IF self # <<>> /\ self[Len(self)] = MpsseCmd.SendImmediate
    THEN Returns(self)
    ELSE Returns(Append(self, MpsseCmd.SendImmediate))

send_immediate(self) == Returns(Append(self, MpsseCmd.SendImmediate))

wait_on_io_high(self) == Returns(Append(self, MpsseCmd.WaitOnIOHigh))

wait_on_io_low(self) == Returns(Append(self, MpsseCmd.WaitOnIOLow))

clock_data_out(self, mode, data) ==
    LET len0 == Len(data) IN
    IF ~(len0 <= 65536) THEN Panics(self)
    ELSE IF len0 = 0 THEN Returns(self)
    ELSE LET len == len0 - 1
             s1  == self \o <<ClockDataOut[mode],
                              AsU8(BitAnd(len, 255)),
                              AsU8(BitAnd(Shr(len, 8), 255))>>
         IN  Returns(s1 \o data)

\* Mutant: the length field written high byte first.
clock_data_in_big_endian(self, mode, len0) ==
    IF ~(len0 <= 65536) THEN Panics(self)
    ELSE IF len0 = 0 THEN Returns(self)
    ELSE LET len == len0 - 1
         IN  Returns(self \o <<ClockDataIn[mode],
                               AsU8(BitAnd(Shr(len, 8), 255)),
                               AsU8(BitAnd(len, 255))>>)

clock_data_in(self, mode, len0) ==
    IF ~(len0 <= 65536) THEN Panics(self)
    ELSE IF len0 = 0 THEN Returns(self)
    ELSE LET len == len0 - 1
         IN  Returns(self \o <<ClockDataIn[mode],
                               AsU8(BitAnd(len, 255)),
                               AsU8(BitAnd(Shr(len, 8), 255))>>)

\* Mutant: the payload is cut to the decremented length.
clock_data_payload_cut(self, mode, data) ==
    LET len0 == Len(data) IN
    IF ~(len0 <= 65536) THEN Panics(self)
    ELSE IF len0 = 0 THEN Returns(self)
    ELSE LET len == len0 - 1
             s1  == self \o <<ClockData[mode],
                              AsU8(BitAnd(len, 255)),
                              AsU8(BitAnd(Shr(len, 8), 255))>>
         IN  Returns(s1 \o SubSeq(data, 1, len))

clock_data(self, mode, data) ==
    LET len0 == Len(data) IN
    IF ~(len0 <= 65536) THEN Panics(self)
    ELSE IF len0 = 0 THEN Returns(self)
    ELSE LET len == len0 - 1
             s1  == self \o <<ClockData[mode],
                              AsU8(BitAnd(len, 255)),
                              AsU8(BitAnd(Shr(len, 8), 255))>>
         IN  Returns(s1 \o data)

\* Mutant: the bytes are appended before the count is checked.
clock_bits_out_checked_late(self, mode, data, len0) ==
    IF len0 = 0 THEN Returns(self)
    ELSE LET s1 == self \o <<ClockBitsOut[mode], AsU8(len0 - 1), data>>
         IN  IF ~(len0 <= 8) THEN Panics(s1) ELSE Returns(s1)

clock_bits_out(self, mode, data, len0) ==
    IF ~(len0 <= 8) THEN Panics(self)
    ELSE IF len0 = 0 THEN Returns(self)
    ELSE LET len == len0 - 1
         IN  Returns(self \o <<ClockBitsOut[mode], len, data>>)

clock_bits_in(self, mode, len0) ==
    IF ~(len0 <= 8) THEN Panics(self)
    ELSE IF len0 = 0 THEN Returns(self)
    ELSE LET len == len0 - 1
         IN  Returns(self \o <<ClockBitsIn[mode], len>>)

\* Mutant: the data byte is masked to the bits that are clocked.
clock_bits_masked(self, mode, data, len0) ==
    IF ~(len0 <= 8) THEN Panics(self)
    ELSE IF len0 = 0 THEN Returns(self)
    ELSE LET len == len0 - 1
         IN  Returns(self \o <<ClockBits[mode], len, BitAnd(data, 2 ^ len0 - 1)>>)

clock_bits(self, mode, data, len0) ==
    IF ~(len0 <= 8) THEN Panics(self)
    ELSE IF len0 = 0 THEN Returns(self)
    ELSE LET len == len0 - 1
         IN  Returns(self \o <<ClockBits[mode], len, data>>)

\* Mutant: the TDI bit is added to the data byte, not OR-ed into it.
clock_tms_out_tdi_added(self, mode, data0, tdi, len0) ==
    IF ~(len0 <= 7) THEN Panics(self)
    ELSE IF len0 = 0 THEN Returns(self)
    ELSE LET len  == len0 - 1
             data == IF tdi THEN AsU8(data0 + 128) ELSE data0
         IN  Returns(self \o <<ClockTMSOut[mode], len, data>>)

clock_tms_out(self, mode, data0, tdi, len0) ==
    IF ~(len0 <= 7) THEN Panics(self)
    ELSE IF len0 = 0 THEN Returns(self)
    ELSE LET len  == len0 - 1
             data == IF tdi THEN BitOr(data0, 128) ELSE data0
         IN  Returns(self \o <<ClockTMSOut[mode], len, data>>)

\* Mutant: no early return for a count of zero; `len -= 1` wraps.
clock_tms_no_zero_return(self, mode, data0, tdi, len0) ==
    IF ~(len0 <= 7) THEN Panics(self)
    ELSE LET len  == AsU8(len0 + 255)
             data == IF tdi THEN BitOr(data0, 128) ELSE data0
         IN  Returns(self \o <<ClockTMS[mode], len, data>>)

clock_tms(self, mode, data0, tdi, len0) ==
    IF ~(len0 <= 7) THEN Panics(self)
    ELSE IF len0 = 0 THEN Returns(self)
    ELSE LET len  == len0 - 1
             data == IF tdi THEN BitOr(data0, 128) ELSE data0
         IN  Returns(self \o <<ClockTMS[mode], len, data>>)

(***************************************************************************)
(* The static builder: the mpsse! macro.  A rule takes the macro's state   *)
(* m = [read_len, out, consts, st] and yields the state its recursive      *)
(* invocation receives.  st = "rejected" stands for an expansion that      *)
(* yields no array: a failed assert!/const_assert!, a path that names no   *)
(* variant of the enum, or a statement no rule matches.                    *)
(***************************************************************************)
count_elements(tts) == Len(tts)

Reject(m) == [m EXCEPT !.st = "rejected"]

\* (@assert ..., $e, $msg)
mpsse_assert(m, e) == IF e THEN m ELSE Reject(m)

\* [$($out)* <bytes>]
Out(m, bytes) == [m EXCEPT !.out = @ \o bytes]

\* [$($out)* $crate::MpsseCmd::<variant> as u8,]
OutCmd(m, variant) ==
    IF variant \in DOMAIN MpsseCmd THEN Out(m, <<MpsseCmd[variant]>>) ELSE Reject(m)

\* const $idx_id: usize = $read_len;
ConstIndex(m) ==
    [m EXCEPT !.consts = Append(@, [ty |-> "usize", value |-> m.read_len])]

\* Mutant: the range is taken after the read length has advanced.
ConstRange_after_advance(m, len) ==
    [m EXCEPT !.consts =
        Append(@, [ty |-> "Range", start |-> m.read_len + len,
                   end |-> m.read_len + len + len])]

\* const $range_id: ::std::ops::Range<usize> = $read_len..$read_len + <len>;
ConstRange(m, len) ==
    [m EXCEPT !.consts =
        Append(@, [ty |-> "Range", start |-> m.read_len, end |-> m.read_len + len])]

\* ($passthru, ($read_len + <k>))
ReadLen(m, k) == [m EXCEPT !.read_len = @ + k]

\* $($data as u8,)*
DataAsU8(data) == [i \in 1..Len(data) |-> AsU8(data[i])]

mpsse_enable_loopback(m) == OutCmd(m, "EnableLoopback")

mpsse_disable_loopback(m) == OutCmd(m, "DisableLoopback")

mpsse_enable_3phase_data_clocking(m) == OutCmd(m, "Enable3PhaseClocking")

mpsse_disable_3phase_data_clocking(m) == OutCmd(m, "Disable3PhaseClocking")

mpsse_enable_adaptive_data_clocking(m) == OutCmd(m, "EnableDataClocking")

mpsse_disable_adaptive_data_clocking(m) == OutCmd(m, "DisableDataClocking")

mpsse_set_gpio_lower(m, state, direction) ==
    Out(m, <<MpsseCmd.SetDataBitsLowbyte, AsU8(state), AsU8(direction)>>)

mpsse_set_gpio_upper(m, state, direction) ==
    Out(m, <<MpsseCmd.SetDataBitsHighbyte, AsU8(state), AsU8(direction)>>)

mpsse_gpio_lower(m) == OutCmd(ReadLen(m, 1), "GetDataBitsLowbyte")

\* Mutant: the index of the const form is taken after the read length has advanced.
mpsse_const_gpio_lower_index_late(m) == ConstIndex(mpsse_gpio_lower(m))

mpsse_const_gpio_lower(m) == mpsse_gpio_lower(ConstIndex(m))

\* Mutant: the rule passes on 1 in place of $read_len + 1.
mpsse_gpio_upper_read_len_restarted(m) ==
    OutCmd([m EXCEPT !.read_len = 1], "GetDataBitsHighbyte")

mpsse_gpio_upper(m) == OutCmd(ReadLen(m, 1), "GetDataBitsHighbyte")

mpsse_const_gpio_upper(m) == mpsse_gpio_upper(ConstIndex(m))

mpsse_send_immediate(m) == OutCmd(m, "SendImmediate")

mpsse_wait_on_io_high(m) == OutCmd(m, "WaitOnIOHigh")

mpsse_wait_on_io_low(m) == OutCmd(m, "WaitOnIOLow")

mpsse_clock_data_out(m, mode, data) ==
    LET cnt == count_elements(data)
        a   == mpsse_assert(m, cnt > 0 /\ cnt <= 65536)
    IN  IF a.st = "rejected" THEN a
        ELSE Out(a, <<ClockDataOut[mode],
                      AsU8(BitAnd(cnt - 1, 255)),
                      AsU8(BitAnd(Shr(cnt - 1, 8), 255))>> \o DataAsU8(data))

mpsse_clock_data_in(m, mode, len) ==
    LET a == mpsse_assert(m, len > 0 /\ len <= 65536)
    IN  IF a.st = "rejected" THEN a
        ELSE Out(ReadLen(a, len),
                 <<ClockDataIn[mode],
                   AsU8(BitAnd(len - 1, 255)),
                   AsU8(BitAnd(Shr(len - 1, 8), 255))>>)

\* Mutant: the range of the const form ends one byte early.
mpsse_const_clock_data_in_short_range(m, mode, len) ==
    mpsse_clock_data_in(ConstRange(m, len - 1), mode, len)

mpsse_const_clock_data_in(m, mode, len) ==
    mpsse_clock_data_in(ConstRange(m, len), mode, len)

mpsse_clock_data(m, mode, data) ==
    LET cnt == count_elements(data)
        a   == mpsse_assert(m, cnt > 0 /\ cnt <= 65536)
    IN  IF a.st = "rejected" THEN a
        ELSE Out(ReadLen(a, cnt),
                 <<ClockData[mode],
                   AsU8(BitAnd(cnt - 1, 255)),
                   AsU8(BitAnd(Shr(cnt - 1, 8), 255))>> \o DataAsU8(data))

\* Mutant: the range is counted from the start of the receive buffer.
mpsse_const_clock_data_from_zero(m, mode, data) ==
    mpsse_clock_data([m EXCEPT !.consts =
                         Append(@, [ty |-> "Range", start |-> 0,
                                    end |-> count_elements(data)])],
                     mode, data)

mpsse_const_clock_data(m, mode, data) ==
    mpsse_clock_data(ConstRange(m, count_elements(data)), mode, data)

\* Mutant: the rule passes on $read_len + 1, as the rule of clock_bits_in does.
mpsse_clock_bits_out_declaring_read(m, mode, data, len) ==
    LET a == mpsse_assert(m, AsU8(len) > 0 /\ AsU8(len) <= 8)
    IN  IF a.st = "rejected" THEN a
        ELSE Out(ReadLen(a, 1), <<ClockBitsOut[mode], AsU8(len - 1), AsU8(data)>>)

mpsse_clock_bits_out(m, mode, data, len) ==
    LET a == mpsse_assert(m, AsU8(len) > 0 /\ AsU8(len) <= 8)
    IN  IF a.st = "rejected" THEN a
        ELSE Out(a, <<ClockBitsOut[mode], AsU8(len - 1), AsU8(data)>>)

\* Mutant: a count of zero is skipped, as the dynamic builder skips it.
mpsse_clock_bits_in_zero_skipped(m, mode, len) ==
    LET a == mpsse_assert(m, AsU8(len) <= 8)
    IN  IF a.st = "rejected" \/ AsU8(len) = 0 THEN a
        ELSE Out(ReadLen(a, 1), <<ClockBitsIn[mode], AsU8(len - 1)>>)

mpsse_clock_bits_in(m, mode, len) ==
    LET a == mpsse_assert(m, AsU8(len) > 0 /\ AsU8(len) <= 8)
    IN  IF a.st = "rejected" THEN a
        ELSE Out(ReadLen(a, 1), <<ClockBitsIn[mode], AsU8(len - 1)>>)

mpsse_const_clock_bits_in(m, mode, len) ==
    mpsse_clock_bits_in(ConstIndex(m), mode, len)

\* Mutant: the read length advances by the bit count.
mpsse_clock_bits_advancing_by_count(m, mode, data, len) ==
    LET a == mpsse_assert(m, AsU8(len) > 0 /\ AsU8(len) <= 8)
    IN  IF a.st = "rejected" THEN a
        ELSE Out(ReadLen(a, len), <<ClockBits[mode], AsU8(len - 1), AsU8(data)>>)

mpsse_clock_bits(m, mode, data, len) ==
    LET a == mpsse_assert(m, AsU8(len) > 0 /\ AsU8(len) <= 8)
    IN  IF a.st = "rejected" THEN a
        ELSE Out(ReadLen(a, 1), <<ClockBits[mode], AsU8(len - 1), AsU8(data)>>)

mpsse_const_clock_bits(m, mode, data, len) ==
    mpsse_clock_bits(ConstIndex(m), mode, data, len)

mpsse_clock_tms_out(m, mode, data, tdi, len) ==
    LET a == mpsse_assert(m, AsU8(len) > 0 /\ AsU8(len) <= 7)
    IN  IF a.st = "rejected" THEN a
        ELSE Out(a, <<ClockTMSOut[mode], AsU8(len - 1),
                      BitOr(AsU8(data), IF tdi THEN 128 ELSE 0)>>)

\* Mutant: the tdi bit is not merged into the data byte.
mpsse_clock_tms_without_tdi(m, mode, data, tdi, len) ==
    LET a == mpsse_assert(m, AsU8(len) > 0 /\ AsU8(len) <= 7)
    IN  IF a.st = "rejected" THEN a
        ELSE Out(ReadLen(a, 1), <<ClockTMS[mode], AsU8(len - 1), AsU8(data)>>)

mpsse_clock_tms(m, mode, data, tdi, len) ==
    LET a == mpsse_assert(m, AsU8(len) > 0 /\ AsU8(len) <= 7)
    IN  IF a.st = "rejected" THEN a
        ELSE Out(ReadLen(a, 1),
                 <<ClockTMS[mode], AsU8(len - 1),
                   BitOr(AsU8(data), IF tdi THEN 128 ELSE 0)>>)

\* Mutant: the const form emits the command itself and leaves out the assertion.
mpsse_const_clock_tms_unasserted(m, mode, data, tdi, len) ==
    Out(ReadLen(ConstIndex(m), 1),
        <<ClockTMS[mode], AsU8(len - 1), BitOr(AsU8(data), IF tdi THEN 128 ELSE 0)>>)

mpsse_const_clock_tms(m, mode, data, tdi, len) ==
    mpsse_clock_tms(ConstIndex(m), mode, data, tdi, len)

\* A statement that no rule of the macro matches (set_clock has none).
mpsse_no_rule(m) == Reject(m)

(***************************************************************************)
(* Inputs.  The "single" scenario draws one command from wide argument     *)
(* sets; the "script" scenario draws up to MaxCmds commands from small     *)
(* ones.                                                                   *)
(***************************************************************************)
Single == scenario = "single"

Depth == IF Single THEN 1 ELSE MaxCmds

Byte == 0..255

\* Byte values of the "single" scenario: every bit alone, every bit alone cleared,
\* and a few patterns.
WideBytes ==
    {0, 1, 2, 4, 8, 16, 32, 64, 128, 255, 254, 253, 251, 247, 239, 223, 191, 127,
     10, 11, 42, 85, 170, 250}

\* The payload <<L, first>> describes: L bytes that start at `first` and whose
\* neighbours differ.
Ramp(p) == <<>> \o [i \in 1..p[1] |-> (p[2] + 7 * (i - 1)) % 256]

WidePayloads ==
    {<<L, 171>> : L \in {0, 1, 2, 3, 255, 256, 257, 4660, 65536, 65537}}
    \cup {<<1, b>> : b \in WideBytes}

WideDataLens == {0, 1, 2, 3, 255, 256, 257, 4660, 65535, 65536, 65537, 65539, 131072}

\* The dynamic builder takes the bit count as a u8; the macro takes any integer
\* expression, so counts of 256 and more are drawn too.
WideBitLens == (0..10) \cup {255, 256, 257, 263, 264}

WideDivisors == {0, 5, 255, 256, 4660, 65535, 65536, 70196, 74565, 2147483647}

\* Vec<u8> values handed to with_vec.
Prefixes == IF Single THEN {<<>>, <<128, 8, 11>>} ELSE {<<>>}

\* (state, direction) pairs of set_gpio_lower / set_gpio_upper.
GpioArgs ==
    IF Single
    THEN (WideBytes \X WideBytes) \cup (Byte \X {0, 170, 255}) \cup ({0, 170, 255} \X Byte)
    ELSE {<<255, 255>>, <<0, 255>>}

\* Requested byte counts of clock_data_in (usize).
DataLens == IF Single THEN WideDataLens ELSE {0, 3}

FirstOf(enum) == CHOOSE v \in DOMAIN enum : TRUE

\* Payloads of clock_data_out / clock_data, as Ramp takes them.  The payloads at
\* the 65536-byte limit are drawn for the first mode of the enum only.
Payloads(enum, mode) ==
    IF Single
    THEN IF mode = FirstOf(enum) THEN WidePayloads
         ELSE {p \in WidePayloads : p[1] < 65536}
    ELSE {<<3, 18>>}

\* Bit counts of clock_bits_out / clock_bits_in / clock_bits / clock_tms_out / clock_tms.
BitLens == IF Single THEN WideBitLens ELSE {4}

DataBytes == IF Single THEN WideBytes ELSE {10}

TdiVals == IF Single THEN BOOLEAN ELSE {TRUE}

Divisors == IF Single THEN WideDivisors ELSE {74565}

ClkDivs == IF Single THEN {"None", "SomeTrue", "SomeFalse"} ELSE {"SomeTrue"}

Forms == {"plain", "const"}

ModesOf(enum) == IF Single THEN DOMAIN enum ELSE {FirstOf(enum)}

\* The operations a script draws from; the others are issued in the "single"
\* scenario only.
ScriptOps ==
    {"enable_loopback", "send_immediate", "enable_adaptive_data_clocking", "set_clock",
     "set_gpio_lower", "gpio_lower", "gpio_upper", "clock_data_out", "clock_data_in",
     "clock_data", "clock_bits_out", "clock_bits_in", "clock_tms_out", "clock_tms"}

NoCmd ==
    [ op |-> "none", form |-> "plain", mode |-> "none",
      state |-> 0, direction |-> 0, divisor |-> 0, clkdiv |-> "None",
      data |-> 0, payload |-> <<0, 0>>, tdi |-> FALSE, len |-> 0 ]

(***************************************************************************)
(* The executor contract, trait MpsseCmdExecutor.  send and recv are the   *)
(* implementor's: each call ends Ok(()) or Err(e), as the transport        *)
(* decides.  xfer is the provided method: self.send(txdata)?; then         *)
(* self.recv(rxdata).                                                      *)
(***************************************************************************)
MaxXfers == 2

Ok == [ok |-> TRUE, err |-> "none"]

Err(e) == [ok |-> FALSE, err |-> e]

\* Self::Error values of the implementor.
Errors == {"timeout", "disconnected"}

Results == {Ok} \cup {Err(e) : e \in Errors}

\* No xfer has been called.
XferIdle ==
    [pc |-> "idle", tx |-> <<>>, rx |-> <<>>, calls |-> <<>>, result |-> Ok, count |-> 0]

\* Command buffers handed to xfer with the receive buffer that goes with them.
Transfers ==
    { <<as_slice(send_immediate(new).self), <<>>>>,
      <<as_slice(send_immediate(gpio_lower(new).self).self), <<0>>>>,
      <<as_slice(send_immediate(clock_data_in(new, "MsbPos", 3).self).self), <<0, 0, 0>>>>,
      <<as_slice(clock_bits(set_gpio_lower(new, 0, 255).self, "MsbPosIn", 10, 4).self), <<0>>>>,
      <<as_slice(clock_data(new, FirstOf(ClockData), <<18, 25, 32>>).self), <<0, 0, 0>>>>,
      <<as_slice(gpio_upper(gpio_lower(with_vec(<<128, 8, 11>>)).self).self), <<0, 0>>>>,
      <<as_slice(new), <<>>>> }

\* What recv may leave in a buffer of the length of rx.
Received(rx) ==
    {[i \in 1..Len(rx) |-> 0], [i \in 1..Len(rx) |-> 255], [i \in 1..Len(rx) |-> 16 * i]}

\* Mutant: the error of send is dropped and recv is called all the same.
xfer_after_send_error_ignored(r) == "recv"

\* self.send(txdata)?  -- an Err returns from xfer at once.
xfer_after_send(r) == IF r.ok THEN "recv" ELSE "done"

\* xfer(txdata, rxdata) is called.
XferCall ==
    /\ xfer.pc \in {"idle", "done"}
    /\ xfer.count < MaxXfers
    /\ \E t \in Transfers :
        xfer' = [pc |-> "send", tx |-> t[1], rx |-> t[2], calls |-> <<>>,
                 result |-> Ok, count |-> xfer.count + 1]
    /\ UNCHANGED <<scenario, base, buf, dyn, ret, out, read_len, consts, st,
                   command_data, READ_LEN, script, prev>>

\* self.send(txdata)?;
XferSend ==
    /\ xfer.pc = "send"
    /\ \E r \in Results :
        xfer' = [xfer EXCEPT
                    !.calls = Append(@, [fn |-> "send", data |-> xfer.tx, result |-> r]),
                    !.pc = xfer_after_send(r),
                    !.result = IF xfer_after_send(r) = "done" THEN r ELSE @]
    /\ UNCHANGED <<scenario, base, buf, dyn, ret, out, read_len, consts, st,
                   command_data, READ_LEN, script, prev>>

\* self.recv(rxdata)  -- its result is the result of xfer.
XferRecv ==
    /\ xfer.pc = "recv"
    /\ \E r \in Results, got \in Received(xfer.rx) :
        xfer' = [xfer EXCEPT
                    !.calls = Append(@, [fn |-> "recv", data |-> xfer.rx, result |-> r]),
                    !.rx = IF r.ok THEN got ELSE @,
                    !.pc = "done",
                    !.result = r]
    /\ UNCHANGED <<scenario, base, buf, dyn, ret, out, read_len, consts, st,
                   command_data, READ_LEN, script, prev>>

(***************************************************************************)
(* The state machine.                                                      *)
(***************************************************************************)
\* Number of commands issued, and the last of them.
n == Len(script)

cmd == IF script = <<>> THEN NoCmd ELSE script[Len(script)]

\* The macro's state as its rules take it.
M == [read_len |-> read_len, out |-> out, consts |-> consts, st |-> st]

Snapshot ==
    [buf |-> buf, dyn |-> dyn, out |-> out, read_len |-> read_len,
     consts |-> consts, st |-> st]

Init ==
    /\ scenario \in {"single", "script"}
    /\ base \in Prefixes
    /\ buf = (IF base = <<>> THEN new ELSE with_vec(base))
    /\ dyn = "building"
    /\ ret = Returns(buf)
    /\ out = <<>>
    /\ read_len = 0
    /\ consts = <<>>
    /\ st = "expanding"
    /\ command_data = <<>>
    /\ READ_LEN = 0
    /\ xfer = XferIdle
    /\ script = <<>>
    /\ prev = [buf |-> buf, dyn |-> "building", out |-> <<>>, read_len |-> 0,
               consts |-> <<>>, st |-> "expanding"]

\* A call whose argument does not fit the method's parameter type (a count of
\* 256 or more for a u8) is no call of the dynamic builder at all.
IllTyped(v) == [self |-> v, end |-> "ill_typed"]

U8Len(len, d) == IF len \in Byte THEN d ELSE IllTyped(buf)

\* Operation op may be issued: the script is not over, and a builder is left to
\* take the command.
Ready(op) ==
    /\ n < Depth
    /\ st # "emitted"
    /\ dyn = "building" \/ st = "expanding"
    /\ Single \/ op \in ScriptOps

\* Command c is issued: d is what the dynamic method returns on buf, s what the
\* macro rule passes on from M.  A builder that has already failed stays as it is.
Issue(c, d, s) ==
    /\ script' = Append(script, c)
    /\ prev' = Snapshot
    /\ IF dyn = "building"
       THEN /\ buf' = d.self
            /\ dyn' = (IF d.end = "returned" THEN "building" ELSE d.end)
            /\ ret' = d
       ELSE UNCHANGED <<buf, dyn, ret>>
    /\ IF st = "expanding"
       THEN /\ out' = s.out
            /\ read_len' = s.read_len
            /\ consts' = s.consts
            /\ st' = s.st
       ELSE UNCHANGED <<out, read_len, consts, st>>
    /\ UNCHANGED <<scenario, base, command_data, READ_LEN, xfer>>

SetClock ==
    /\ Ready("set_clock")
    /\ \E divisor \in Divisors, clkdiv \in ClkDivs :
        Issue([NoCmd EXCEPT !.op = "set_clock", !.divisor = divisor, !.clkdiv = clkdiv],
              set_clock(buf, divisor, clkdiv),
              mpsse_no_rule(M))

EnableLoopback ==
    /\ Ready("enable_loopback")
    /\ Issue([NoCmd EXCEPT !.op = "enable_loopback"],
          enable_loopback(buf), mpsse_enable_loopback(M))

DisableLoopback ==
    /\ Ready("disable_loopback")
    /\ Issue([NoCmd EXCEPT !.op = "disable_loopback"],
          disable_loopback(buf), mpsse_disable_loopback(M))

Disable3PhaseDataClocking ==
    /\ Ready("disable_3phase_data_clocking")
    /\ Issue([NoCmd EXCEPT !.op = "disable_3phase_data_clocking"],
          disable_3phase_data_clocking(buf), mpsse_disable_3phase_data_clocking(M))

Enable3PhaseDataClocking ==
    /\ Ready("enable_3phase_data_clocking")
    /\ Issue([NoCmd EXCEPT !.op = "enable_3phase_data_clocking"],
          enable_3phase_data_clocking(buf), mpsse_enable_3phase_data_clocking(M))

EnableAdaptiveDataClocking ==
    /\ Ready("enable_adaptive_data_clocking")
    /\ Issue([NoCmd EXCEPT !.op = "enable_adaptive_data_clocking"],
          enable_adaptive_data_clocking(buf), mpsse_enable_adaptive_data_clocking(M))

DisableAdaptiveDataClocking ==
    /\ Ready("disable_adaptive_data_clocking")
    /\ Issue([NoCmd EXCEPT !.op = "disable_adaptive_data_clocking"],
          disable_adaptive_data_clocking(buf), mpsse_disable_adaptive_data_clocking(M))

SetGpioLower ==
    /\ Ready("set_gpio_lower")
    /\ \E a \in GpioArgs :
        Issue([NoCmd EXCEPT !.op = "set_gpio_lower", !.state = a[1], !.direction = a[2]],
              set_gpio_lower(buf, a[1], a[2]),
              mpsse_set_gpio_lower(M, a[1], a[2]))

SetGpioUpper ==
    /\ Ready("set_gpio_upper")
    /\ \E a \in GpioArgs :
        Issue([NoCmd EXCEPT !.op = "set_gpio_upper", !.state = a[1], !.direction = a[2]],
              set_gpio_upper(buf, a[1], a[2]),
              mpsse_set_gpio_upper(M, a[1], a[2]))

GpioLower ==
    /\ Ready("gpio_lower")
    /\ \E form \in Forms :
        Issue([NoCmd EXCEPT !.op = "gpio_lower", !.form = form],
              gpio_lower(buf),
              IF form = "const" THEN mpsse_const_gpio_lower(M) ELSE mpsse_gpio_lower(M))

GpioUpper ==
    /\ Ready("gpio_upper")
    /\ \E form \in Forms :
        Issue([NoCmd EXCEPT !.op = "gpio_upper", !.form = form],
              gpio_upper(buf),
              IF form = "const" THEN mpsse_const_gpio_upper(M) ELSE mpsse_gpio_upper(M))

SendImmediate ==
    /\ Ready("send_immediate")
    /\ Issue([NoCmd EXCEPT !.op = "send_immediate"],
          send_immediate(buf), mpsse_send_immediate(M))

WaitOnIoHigh ==
    /\ Ready("wait_on_io_high")
    /\ Issue([NoCmd EXCEPT !.op = "wait_on_io_high"],
          wait_on_io_high(buf), mpsse_wait_on_io_high(M))

WaitOnIoLow ==
    /\ Ready("wait_on_io_low")
    /\ Issue([NoCmd EXCEPT !.op = "wait_on_io_low"],
          wait_on_io_low(buf), mpsse_wait_on_io_low(M))

ClockDataOutCmd ==
    /\ Ready("clock_data_out")
    /\ \E mode \in ModesOf(ClockDataOut) : \E p \in Payloads(ClockDataOut, mode) :
        LET data == Ramp(p) IN
        Issue([NoCmd EXCEPT !.op = "clock_data_out", !.mode = mode, !.payload = p,
                            !.len = Len(data)],
              clock_data_out(buf, mode, data),
              mpsse_clock_data_out(M, mode, data))

ClockDataInCmd ==
    /\ Ready("clock_data_in")
    /\ \E mode \in ModesOf(ClockDataIn), len \in DataLens, form \in Forms :
        Issue([NoCmd EXCEPT !.op = "clock_data_in", !.mode = mode, !.len = len,
                            !.form = form],
              clock_data_in(buf, mode, len),
              IF form = "const" THEN mpsse_const_clock_data_in(M, mode, len)
              ELSE mpsse_clock_data_in(M, mode, len))

ClockDataCmd ==
    /\ Ready("clock_data")
    /\ \E mode \in ModesOf(ClockData), form \in Forms : \E p \in Payloads(ClockData, mode) :
        LET data == Ramp(p) IN
        Issue([NoCmd EXCEPT !.op = "clock_data", !.mode = mode, !.payload = p,
                            !.len = Len(data), !.form = form],
              clock_data(buf, mode, data),
              IF form = "const" THEN mpsse_const_clock_data(M, mode, data)
              ELSE mpsse_clock_data(M, mode, data))

ClockBitsOutCmd ==
    /\ Ready("clock_bits_out")
    /\ \E mode \in ModesOf(ClockBitsOut), data \in DataBytes, len \in BitLens :
        Issue([NoCmd EXCEPT !.op = "clock_bits_out", !.mode = mode, !.data = data,
                            !.len = len],
              U8Len(len, clock_bits_out(buf, mode, data, len)),
              mpsse_clock_bits_out(M, mode, data, len))

ClockBitsInCmd ==
    /\ Ready("clock_bits_in")
    /\ \E mode \in ModesOf(ClockBitsIn), len \in BitLens, form \in Forms :
        Issue([NoCmd EXCEPT !.op = "clock_bits_in", !.mode = mode, !.len = len,
                            !.form = form],
              U8Len(len, clock_bits_in(buf, mode, len)),
              IF form = "const" THEN mpsse_const_clock_bits_in(M, mode, len)
              ELSE mpsse_clock_bits_in(M, mode, len))

ClockBitsCmd ==
    /\ Ready("clock_bits")
    /\ \E mode \in ModesOf(ClockBits), data \in DataBytes, len \in BitLens, form \in Forms :
        Issue([NoCmd EXCEPT !.op = "clock_bits", !.mode = mode, !.data = data,
                            !.len = len, !.form = form],
              U8Len(len, clock_bits(buf, mode, data, len)),
              IF form = "const" THEN mpsse_const_clock_bits(M, mode, data, len)
              ELSE mpsse_clock_bits(M, mode, data, len))

ClockTmsOutCmd ==
    /\ Ready("clock_tms_out")
    /\ \E mode \in ModesOf(ClockTMSOut), data \in DataBytes, tdi \in TdiVals, len \in BitLens :
        Issue([NoCmd EXCEPT !.op = "clock_tms_out", !.mode = mode, !.data = data,
                            !.tdi = tdi, !.len = len],
              U8Len(len, clock_tms_out(buf, mode, data, tdi, len)),
              mpsse_clock_tms_out(M, mode, data, tdi, len))

ClockTmsCmd ==
    /\ Ready("clock_tms")
    /\ \E mode \in ModesOf(ClockTMS), data \in DataBytes, tdi \in TdiVals, len \in BitLens,
         form \in Forms :
        Issue([NoCmd EXCEPT !.op = "clock_tms", !.mode = mode, !.data = data,
                            !.tdi = tdi, !.len = len, !.form = form],
              U8Len(len, clock_tms(buf, mode, data, tdi, len)),
              IF form = "const" THEN mpsse_const_clock_tms(M, mode, data, tdi, len)
              ELSE mpsse_clock_tms(M, mode, data, tdi, len))

\* The input token tree is empty: the macro binds the array and READ_LEN.
Emit ==
    /\ st = "expanding"
    /\ st' = "emitted"
    /\ command_data' = out
    /\ READ_LEN' = read_len
    /\ UNCHANGED <<scenario, base, buf, dyn, ret, out, read_len, consts, xfer, script, prev>>

Next ==
    \/ SetClock
    \/ EnableLoopback
    \/ DisableLoopback
    \/ Disable3PhaseDataClocking
    \/ Enable3PhaseDataClocking
    \/ EnableAdaptiveDataClocking
    \/ DisableAdaptiveDataClocking
    \/ SetGpioLower
    \/ SetGpioUpper
    \/ GpioLower
    \/ GpioUpper
    \/ SendImmediate
    \/ WaitOnIoHigh
    \/ WaitOnIoLow
    \/ ClockDataOutCmd
    \/ ClockDataInCmd
    \/ ClockDataCmd
    \/ ClockBitsOutCmd
    \/ ClockBitsInCmd
    \/ ClockBitsCmd
    \/ ClockTmsOutCmd
    \/ ClockTmsCmd
    \/ Emit

Spec == Init /\ [][Next]_vars

\* The executor alone: xfer is called on finished command buffers.
XferInit == Init /\ scenario = "script"

XferNext ==
    \/ XferCall
    \/ XferSend
    \/ XferRecv

XferSpec == XferInit /\ [][XferNext]_vars

(***************************************************************************)
(* Vocabulary of the properties.                                           *)
(***************************************************************************)
\* The last command was handed to a dynamic builder that was still building.
DynIssued(ops) == cmd.op \in ops /\ prev.dyn = "building"

\* The last command was handed to a macro expansion that was still under way.
StaticIssued(ops) == cmd.op \in ops /\ prev.st = "expanding"

\* The opcode byte of the last command's mode.
ModeByte ==
    CASE cmd.op = "clock_data_out" -> ClockDataOut[cmd.mode]
      [] cmd.op = "clock_data_in"  -> ClockDataIn[cmd.mode]
      [] cmd.op = "clock_data"     -> ClockData[cmd.mode]
      [] cmd.op = "clock_bits_out" -> ClockBitsOut[cmd.mode]
      [] cmd.op = "clock_bits_in"  -> ClockBitsIn[cmd.mode]
      [] cmd.op = "clock_bits"     -> ClockBits[cmd.mode]
      [] cmd.op = "clock_tms_out"  -> ClockTMSOut[cmd.mode]
      [] cmd.op = "clock_tms"      -> ClockTMS[cmd.mode]

ByteOps == {"clock_data_out", "clock_data_in", "clock_data"}

BitOps == {"clock_bits_out", "clock_bits_in", "clock_bits"}

TmsOps == {"clock_tms_out", "clock_tms"}

\* What the last command appended to the dynamic buffer.
Appended == SubSeq(buf, Len(prev.buf) + 1, Len(buf))

(***************************************************************************)
(* C1.  clock_data_out, clock_data_in and clock_data of the dynamic        *)
(* builder, for a requested length L in 1..=65536: the two bytes appended  *)
(* directly after the mode opcode are (L-1) mod 256 and then (L-1) div 256 *)
(* (65536 gives 0xFF, 0xFF; 1 gives 0x00, 0x00).                           *)
(***************************************************************************)
C1_LengthField ==
    (DynIssued(ByteOps) /\ cmd.len \in 1..65536) =>
        LET k == Len(prev.buf) IN
        /\ Len(buf) >= k + 3
        /\ buf[k + 1] = ModeByte
        /\ buf[k + 2] = (cmd.len - 1) % 256
        /\ buf[k + 3] = (cmd.len - 1) \div 256
        /\ cmd.len = 65536 => buf[k + 2] = 255 /\ buf[k + 3] = 255
        /\ cmd.len = 1 => buf[k + 2] = 0 /\ buf[k + 3] = 0

C1_Witness ==
    /\ DynIssued({"clock_data_in"})
    /\ cmd.len = 65536
    /\ Appended = <<ModeByte, 255, 255>>

(***************************************************************************)
(* C2.  Static builder: along an accepted sequence, the offset (or range   *)
(* start) recorded for the i-th read-declaring command is the sum of the   *)
(* response widths of the read-declaring commands before it, its range     *)
(* width is its own response width, and READ_LEN is the sum of all widths. *)
(***************************************************************************)
\* Response bytes a command produces, as the specification states them.
Width(c) ==
    CASE c.op \in {"gpio_lower", "gpio_upper", "clock_bits_in", "clock_bits", "clock_tms"}
            -> 1
      [] c.op \in {"clock_data_in", "clock_data"} -> c.len
      [] OTHER -> 0

RECURSIVE SumWidths(_, _)
SumWidths(s, j) == IF j = 0 THEN 0 ELSE SumWidths(s, j - 1) + Width(s[j])

\* The coordinates the first j commands of s record, one per `const X = ...`.
RECURSIVE ExpectedConsts(_, _)
ExpectedConsts(s, j) ==
    IF j = 0 THEN <<>>
    ELSE LET c   == s[j]
             off == SumWidths(s, j - 1)
             rec == IF c.op \in {"clock_data_in", "clock_data"}
                    THEN [ty |-> "Range", start |-> off, end |-> off + Width(c)]
                    ELSE [ty |-> "usize", value |-> off]
         IN  IF c.form = "const" /\ Width(c) > 0
             THEN Append(ExpectedConsts(s, j - 1), rec)
             ELSE ExpectedConsts(s, j - 1)

C2_LedgerOffsets ==
    st # "rejected" =>
        /\ read_len = SumWidths(script, Len(script))
        /\ consts = ExpectedConsts(script, Len(script))
        /\ st = "emitted" => READ_LEN = SumWidths(script, Len(script))

C2_Witness ==
    /\ st = "emitted"
    /\ Len(script) = 3
    /\ script[1].op = "gpio_lower" /\ script[1].form = "const"
    /\ script[2].op = "send_immediate"
    /\ script[3].op = "clock_data_in" /\ script[3].form = "const" /\ script[3].len = 3
    /\ consts = <<[ty |-> "usize", value |-> 0],
                  [ty |-> "Range", start |-> 1, end |-> 4]>>
    /\ READ_LEN = 4

(***************************************************************************)
(* C3.  For a command sequence that both builders take (the macro emits    *)
(* an array, every dynamic call type-checks and returns), the array        *)
(* equals, byte for byte, as_slice() of the dynamic builder started from   *)
(* MpsseCmdBuilder::new() (after the prefix, when started from with_vec).  *)
(***************************************************************************)
C3_StaticEqualsDynamic ==
    (st = "emitted" /\ dyn = "building") =>
        /\ as_slice(buf) = base \o command_data
        /\ base = <<>> => command_data = as_slice(buf)

C3_Witness ==
    /\ st = "emitted" /\ dyn = "building" /\ base = <<>>
    /\ Len(script) = 3
    /\ script[1].op = "set_gpio_lower"
    /\ script[2].op = "clock_tms"
    /\ script[3].op = "clock_data"
    /\ command_data = as_slice(buf)
    /\ Len(command_data) = 12

(***************************************************************************)
(* C4.  Dynamic builder: a zero-length request to a count-taking           *)
(* operation returns the builder with its buffer unchanged, whatever the   *)
(* mode, data byte or tdi, and raises no failure.                          *)
(***************************************************************************)
C4_ZeroLengthNoOp ==
    (DynIssued(ByteOps \cup BitOps \cup TmsOps) /\ cmd.len = 0) =>
        /\ buf = prev.buf
        /\ dyn = "building"

C4_Witness ==
    /\ DynIssued({"clock_tms"})
    /\ cmd.len = 0 /\ cmd.tdi /\ cmd.data = 255
    /\ prev.buf = <<128, 8, 11>>
    /\ buf = prev.buf
    /\ dyn = "building"

(***************************************************************************)
(* C5.  Dynamic builder: a request above the family maximum (65536 bytes,  *)
(* 8 bits, 7 TMS bits) panics before any byte is appended; the buffer      *)
(* never holds a partial or clamped encoding of the rejected command.      *)
(***************************************************************************)
\* The last command's count is above its family's maximum and fits the
\* parameter type (a u8 for the bit and TMS counts).
OverMax ==
    \/ cmd.op \in ByteOps /\ cmd.len > 65536
    \/ cmd.op \in BitOps /\ cmd.len > 8 /\ cmd.len \in Byte
    \/ cmd.op \in TmsOps /\ cmd.len > 7 /\ cmd.len \in Byte

C5_OverMaxPanics ==
    /\ (DynIssued(ByteOps \cup BitOps \cup TmsOps) /\ OverMax) =>
            dyn = "panicked" /\ buf = prev.buf
    /\ dyn = "panicked" => buf = prev.buf /\ OverMax

C5_Witness ==
    /\ DynIssued({"clock_data_in"})
    /\ cmd.len = 65537
    /\ dyn = "panicked"
    /\ buf = prev.buf

\* What the last command appended to the macro's output tokens.
StaticAppended == SubSeq(out, Len(prev.out) + 1, Len(out))

(***************************************************************************)
(* C6.  clock_tms_out and clock_tms with len in 1..=7, in both builders:   *)
(* the third appended byte, the transmitted data byte, has bit 0x80 set    *)
(* whenever tdi is true, whatever bit 7 of the input data byte is, and is  *)
(* the input data byte unchanged whenever tdi is false; its bits 0..6 are  *)
(* always the input's bits 0..6.                                           *)
(***************************************************************************)
TmsDataByte(b) ==
    /\ b % 128 = cmd.data % 128
    /\ cmd.tdi => b >= 128
    /\ ~cmd.tdi => b = cmd.data

C6_TmsTdiBit ==
    /\ (DynIssued(TmsOps) /\ cmd.len \in 1..7) =>
            /\ dyn = "building"
            /\ Len(Appended) = 3
            /\ TmsDataByte(Appended[3])
    /\ (StaticIssued(TmsOps) /\ cmd.len \in 1..7) =>
            /\ st # "rejected"
            /\ Len(StaticAppended) = 3
            /\ TmsDataByte(StaticAppended[3])

C6_Witness ==
    /\ DynIssued({"clock_tms_out"}) /\ StaticIssued({"clock_tms_out"})
    /\ cmd.tdi /\ cmd.data = 255 /\ cmd.len = 7
    /\ Appended = <<ModeByte, 6, 255>>
    /\ StaticAppended = Appended

(***************************************************************************)
(* C7.  set_gpio_lower(state, direction) appends exactly the three bytes   *)
(* 0x80, state, direction and set_gpio_upper(state, direction) exactly     *)
(* 0x82, state, direction, for every pair of bytes, both bytes verbatim    *)
(* and state first.  set_gpio_lower(0xFF, 0xFF), set_gpio_lower(0x00,      *)
(* 0xFF), send_immediate() on an empty builder give                        *)
(* 0x80 0xFF 0xFF 0x80 0x00 0xFF 0x87.                                     *)
(***************************************************************************)
GpioExample ==
    /\ base = <<>>
    /\ Len(script) = 3
    /\ script[1].op = "set_gpio_lower" /\ script[1].state = 255 /\ script[1].direction = 255
    /\ script[2].op = "set_gpio_lower" /\ script[2].state = 0 /\ script[2].direction = 255
    /\ script[3].op = "send_immediate"

C7_SetGpioBytes ==
    /\ DynIssued({"set_gpio_lower"}) =>
            /\ dyn = "building"
            /\ buf = prev.buf \o <<128, cmd.state, cmd.direction>>
    /\ DynIssued({"set_gpio_upper"}) =>
            /\ dyn = "building"
            /\ buf = prev.buf \o <<130, cmd.state, cmd.direction>>
    /\ GpioExample => as_slice(buf) = <<128, 255, 255, 128, 0, 255, 135>>

C7_Witness ==
    /\ GpioExample
    /\ as_slice(buf) = <<128, 255, 255, 128, 0, 255, 135>>

(***************************************************************************)
(* C8.  clock_data_in(mode, n) with n in 1..=65536 appends exactly three   *)
(* bytes, the mode opcode and the two-byte field of n - 1, and no payload; *)
(* it declares the response range [offset, offset + n), offset being the   *)
(* read length when the command is appended (the const form of the macro   *)
(* names that range, and the read length advances by n).  As the first     *)
(* command, clock_data_in(MsbPos, 3) gives 0x20 0x02 0x00 and the range    *)
(* 0..3.                                                                   *)
(***************************************************************************)
DataInBytes == <<ClockDataIn[cmd.mode], (cmd.len - 1) % 256, (cmd.len - 1) \div 256>>

DataInExample ==
    /\ base = <<>>
    /\ Len(script) = 1
    /\ cmd.op = "clock_data_in" /\ cmd.mode = "MsbPos" /\ cmd.len = 3 /\ cmd.form = "const"

C8_ClockDataIn ==
    /\ (DynIssued({"clock_data_in"}) /\ cmd.len \in 1..65536) =>
            /\ dyn = "building"
            /\ buf = prev.buf \o DataInBytes
    /\ (StaticIssued({"clock_data_in"}) /\ cmd.len \in 1..65536) =>
            /\ st # "rejected"
            /\ out = prev.out \o DataInBytes
            /\ read_len = prev.read_len + cmd.len
            /\ consts = IF cmd.form = "const"
                        THEN Append(prev.consts,
                                    [ty |-> "Range", start |-> prev.read_len,
                                     end |-> prev.read_len + cmd.len])
                        ELSE prev.consts
    /\ DataInExample =>
            /\ as_slice(buf) = <<32, 2, 0>>
            /\ out = <<32, 2, 0>>
            /\ consts = <<[ty |-> "Range", start |-> 0, end |-> 3]>>

C8_Witness ==
    /\ DataInExample
    /\ as_slice(buf) = <<32, 2, 0>>
    /\ consts = <<[ty |-> "Range", start |-> 0, end |-> 3]>>
    /\ read_len = 3

(***************************************************************************)
(* C9.  For a bit count n in 1..=8, clock_bits_out(mode, data, n) and      *)
(* clock_bits(mode, data, n) append exactly the three bytes mode opcode,   *)
(* n - 1, data, and clock_bits_in(mode, n) exactly the two bytes mode      *)
(* opcode, n - 1; the data byte is verbatim, not masked to n bits.         *)
(* clock_bits_out(MsbPos, 0b1010, 4) gives 0x12 0x03 0x0A.                 *)
(***************************************************************************)
BitsExample ==
    /\ base = <<>>
    /\ Len(script) = 1
    /\ cmd.op = "clock_bits_out" /\ cmd.mode = "MsbPos" /\ cmd.data = 10 /\ cmd.len = 4

C9_BitCommands ==
    /\ (DynIssued({"clock_bits_out", "clock_bits"}) /\ cmd.len \in 1..8) =>
            /\ dyn = "building"
            /\ buf = prev.buf \o <<ModeByte, cmd.len - 1, cmd.data>>
    /\ (DynIssued({"clock_bits_in"}) /\ cmd.len \in 1..8) =>
            /\ dyn = "building"
            /\ buf = prev.buf \o <<ModeByte, cmd.len - 1>>
    /\ BitsExample => as_slice(buf) = <<18, 3, 10>>

C9_Witness ==
    /\ BitsExample
    /\ dyn = "building"
    /\ as_slice(buf) = <<18, 3, 10>>

(***************************************************************************)
(* C10.  As stated: for each read-declaring operation (gpio_lower,         *)
(* gpio_upper, clock_data_in, clock_data, clock_bits_in, clock_bits,       *)
(* clock_tms) the dynamic builder hands its caller the command's read      *)
(* offset or [start, end) range together with the updated builder.         *)
(***************************************************************************)
ReadOps ==
    {"gpio_lower", "gpio_upper", "clock_data_in", "clock_data", "clock_bits_in",
     "clock_bits", "clock_tms"}

\* The last command was appended by the dynamic builder and declares a read.
DynRead == DynIssued(ReadOps) /\ dyn = "building" /\ Appended # <<>>

C10_DynamicReturnsCoordinates ==
    DynRead => \E f \in DOMAIN ret : f \in {"offset", "range"}

(***************************************************************************)
(* C10, amended.  A read-declaring operation of the dynamic builder hands  *)
(* its caller the updated builder and nothing else.  The read coordinates  *)
(* are named at append time by the const form of the macro only: a usize   *)
(* offset for the one-byte reads, a [start, end) range for clock_data_in   *)
(* and clock_data, taken from the read length as it is before the command  *)
(* advances it.                                                            *)
(***************************************************************************)
C10_CoordinatesFromConstFormOnly ==
    /\ DynRead => ret = Returns(buf)
    /\ (StaticIssued(ReadOps) /\ st # "rejected") =>
            /\ read_len > prev.read_len
            /\ consts =
                 IF cmd.form = "plain" THEN prev.consts
                 ELSE IF cmd.op \in {"clock_data_in", "clock_data"}
                 THEN Append(prev.consts,
                             [ty |-> "Range", start |-> prev.read_len, end |-> read_len])
                 ELSE Append(prev.consts, [ty |-> "usize", value |-> prev.read_len])

C10_Witness ==
    /\ Len(script) = 2
    /\ script[1].op = "clock_data" /\ script[1].form = "const"
    /\ cmd.op = "gpio_lower" /\ cmd.form = "const"
    /\ DynRead
    /\ ret = Returns(buf)
    /\ consts = <<[ty |-> "Range", start |-> 0, end |-> 3], [ty |-> "usize", value |-> 3]>>

(***************************************************************************)
(* C11.  set_clock(divisor, clkdiv) first appends 0x8B when clkdiv is      *)
(* Some(true), 0x8A when it is Some(false) and nothing when it is None,    *)
(* and then always 0x86, divisor mod 256, (divisor div 256) mod 256.  Only *)
(* the low 16 bits of the divisor are sent: two divisors congruent modulo  *)
(* 65536 give the same bytes, and the command is 3 or 4 bytes long.        *)
(***************************************************************************)
ClockDivideByte ==
    CASE cmd.clkdiv = "SomeTrue"  -> <<139>>
      [] cmd.clkdiv = "SomeFalse" -> <<138>>
      [] cmd.clkdiv = "None"      -> <<>>

C11_SetClock ==
    DynIssued({"set_clock"}) =>
        /\ dyn = "building"
        /\ buf = prev.buf \o ClockDivideByte
                   \o <<134, cmd.divisor % 256, (cmd.divisor \div 256) % 256>>
        /\ Len(Appended) \in {3, 4}
        /\ \A d \in Divisors :
               d % 65536 = cmd.divisor % 65536 =>
                   set_clock(prev.buf, d, cmd.clkdiv).self = buf

C11_Witness ==
    /\ DynIssued({"set_clock"})
    /\ cmd.divisor = 70196 /\ cmd.clkdiv = "SomeTrue"
    /\ Appended = <<139, 134, 52, 18>>
    /\ set_clock(prev.buf, 4660, cmd.clkdiv).self = buf

(***************************************************************************)
(* C12.  The provided xfer(tx, rx) calls send(tx) exactly once and first.  *)
(* If send fails, xfer returns that error and recv is never called; if     *)
(* send succeeds, recv(rx) is called exactly once and xfer returns exactly *)
(* the result of recv.  Neither step is retried.                           *)
(***************************************************************************)
SendCalls == {i \in 1..Len(xfer.calls) : xfer.calls[i].fn = "send"}

RecvCalls == {i \in 1..Len(xfer.calls) : xfer.calls[i].fn = "recv"}

C12_XferSendThenRecv ==
    /\ Cardinality(SendCalls) <= 1 /\ Cardinality(RecvCalls) <= 1
    /\ xfer.pc \in {"recv", "done"} =>
            /\ SendCalls = {1}
            /\ xfer.calls[1].data = xfer.tx
    /\ xfer.pc = "recv" => xfer.calls[1].result = Ok /\ RecvCalls = {}
    /\ xfer.pc = "done" =>
            IF xfer.calls[1].result.ok
            THEN /\ RecvCalls = {2}
                 /\ Len(xfer.calls[2].data) = Len(xfer.rx)
                 /\ xfer.result = xfer.calls[2].result
            ELSE /\ RecvCalls = {}
                 /\ xfer.result = xfer.calls[1].result

C12_Witness ==
    /\ xfer.pc = "done"
    /\ xfer.calls = <<[fn |-> "send", data |-> <<129, 135>>, result |-> Err("timeout")]>>
    /\ xfer.result = Err("timeout")

(***************************************************************************)
(* C13.  Each parameterless command of the dynamic builder appends exactly *)
(* one fixed opcode byte and nothing else: enable_loopback 0x84,           *)
(* disable_loopback 0x85, send_immediate 0x87, wait_on_io_high 0x88,       *)
(* wait_on_io_low 0x89, enable_3phase_data_clocking 0x8C,                  *)
(* disable_3phase_data_clocking 0x8D, enable_adaptive_data_clocking 0x96,  *)
(* disable_adaptive_data_clocking 0x97, gpio_lower 0x81, gpio_upper 0x83.  *)
(***************************************************************************)
OneByteOpcode ==
    [ enable_loopback                |-> 132,
      disable_loopback               |-> 133,
      send_immediate                 |-> 135,
      wait_on_io_high                |-> 136,
      wait_on_io_low                 |-> 137,
      enable_3phase_data_clocking    |-> 140,
      disable_3phase_data_clocking   |-> 141,
      enable_adaptive_data_clocking  |-> 150,
      disable_adaptive_data_clocking |-> 151,
      gpio_lower                     |-> 129,
      gpio_upper                     |-> 131 ]

PayloadOps == {"clock_data_out", "clock_data"}

PayloadBytes ==
    <<ModeByte, (cmd.len - 1) % 256, (cmd.len - 1) \div 256>> \o Ramp(cmd.payload)

C14_PayloadVerbatim ==
    /\ (DynIssued(PayloadOps) /\ cmd.len \in 1..65536) =>
            /\ dyn = "building"
            /\ Len(buf) = Len(prev.buf) + 3 + cmd.len
            /\ buf = prev.buf \o PayloadBytes
    /\ (StaticIssued(PayloadOps) /\ cmd.len \in 1..65536) =>
            /\ st # "rejected"
            /\ Len(out) = Len(prev.out) + 3 + cmd.len
            /\ out = prev.out \o PayloadBytes
            /\ read_len = prev.read_len + (IF cmd.op = "clock_data" THEN cmd.len ELSE 0)
            /\ consts = IF cmd.op = "clock_data" /\ cmd.form = "const"
                        THEN Append(prev.consts,
                                    [ty |-> "Range", start |-> prev.read_len,
                                     end |-> prev.read_len + cmd.len])
                        ELSE prev.consts

C14_Witness ==
    /\ DynIssued({"clock_data"}) /\ StaticIssued({"clock_data"})
    /\ Len(script) = 2 /\ script[1].op = "gpio_lower"
    /\ cmd.form = "const" /\ cmd.len = 3
    /\ Appended = <<ModeByte, 2, 0, 18, 25, 32>>
    /\ StaticAppended = Appended
    /\ read_len = 4
    /\ consts = <<[ty |-> "Range", start |-> 1, end |-> 4]>>

(***************************************************************************)
(* C15.  As stated: in the static builder a zero count or empty payload    *)
(* for clock_data_out, clock_data_in, clock_data, clock_bits_out,          *)
(* clock_bits_in, clock_bits, clock_tms_out or clock_tms is skipped        *)
(* silently, as in the dynamic builder: construction succeeds, no bytes    *)
(* are emitted for that command and the read length is not advanced.       *)
(***************************************************************************)
LenOps == ByteOps \cup BitOps \cup TmsOps

StaticZero == StaticIssued(LenOps) /\ cmd.len = 0

StaticOverMax ==
    \/ cmd.op \in ByteOps /\ cmd.len > 65536
    \/ cmd.op \in BitOps /\ cmd.len > 8
    \/ cmd.op \in TmsOps /\ cmd.len > 7

C16_StaticOverMaxRejected ==
    (StaticIssued(LenOps) /\ StaticOverMax) =>
        /\ st = "rejected"
        /\ command_data = <<>>

(***************************************************************************)
(* C17.  As documented on the MpsseCmd enumeration: opcode                 *)
(* EnableAdaptiveClocking (0x96) is the byte appended by                   *)
(* disable_adaptive_data_clocking, and opcode DisableAdaptiveClocking      *)
(* (0x97) is the byte appended by enable_adaptive_data_clocking.           *)
(***************************************************************************)
C17_AdaptiveOpcodesAsDocumented ==
    /\ DynIssued({"disable_adaptive_data_clocking"}) =>
            Appended = <<MpsseCmd.EnableAdaptiveClocking>>
    /\ DynIssued({"enable_adaptive_data_clocking"}) =>
            Appended = <<MpsseCmd.DisableAdaptiveClocking>>

(***************************************************************************)
(* C18.  In the static builder every command that declares no response     *)
(* (enable / disable loopback, enable / disable 3-phase clocking,          *)
(* set_gpio_lower, set_gpio_upper, send_immediate, wait_on_io_high,        *)
(* wait_on_io_low, clock_data_out, clock_bits_out, clock_tms_out) leaves   *)
(* the running read length unchanged: the value passed to the rest of the  *)
(* sequence is the value the rule received.                                *)
(***************************************************************************)
NoReadOps ==
    {"enable_loopback", "disable_loopback", "enable_3phase_data_clocking",
     "disable_3phase_data_clocking", "set_gpio_lower", "set_gpio_upper",
     "send_immediate", "wait_on_io_high", "wait_on_io_low", "clock_data_out",
     "clock_bits_out", "clock_tms_out"}

C18_NoReadLeavesReadLen ==
    StaticIssued(NoReadOps) =>
        /\ read_len = prev.read_len
        /\ consts = prev.consts
        /\ st = "emitted" => READ_LEN = prev.read_len

C18_Witness ==
    /\ Len(script) = 2
    /\ script[1].op = "clock_data_in" /\ script[1].len = 3
    /\ StaticIssued({"clock_bits_out"})
    /\ st = "emitted"
    /\ Len(command_data) = 6
    /\ prev.read_len = 3 /\ READ_LEN = 3

(***************************************************************************)
(* C19.  gpio_lower, gpio_upper, clock_bits_in, clock_bits and clock_tms   *)
(* each advance the read length by exactly 1 per accepted command,         *)
(* whatever the bit count (1..=8 for bits, 1..=7 for TMS), the mode and    *)
(* the data byte; the index recorded for such a command is a single        *)
(* offset, not a range.                                                    *)
(***************************************************************************)
OneByteReadOps == {"gpio_lower", "gpio_upper", "clock_bits_in", "clock_bits", "clock_tms"}

C19_OneByteReads ==
    (StaticIssued(OneByteReadOps) /\ st # "rejected") =>
        /\ read_len = prev.read_len + 1
        /\ consts = IF cmd.form = "const"
                    THEN Append(prev.consts, [ty |-> "usize", value |-> prev.read_len])
                    ELSE prev.consts

C19_Witness ==
    /\ Len(script) = 1
    /\ StaticIssued({"clock_bits"})
    /\ cmd.len = 8 /\ cmd.data = 255 /\ cmd.form = "const"
    /\ st = "expanding"
    /\ read_len = 1
    /\ consts = <<[ty |-> "usize", value |-> 0]>>

(***************************************************************************)
(* C20.  The command buffer is append-only and each operation is           *)
(* stateless: an operation of the dynamic builder with arguments a,        *)
(* applied to a builder that holds B (one made by with_vec(B) included),   *)
(* leaves B followed by enc(op, a), where enc depends on op and a only.    *)
(* So no byte already there is changed or removed, and building S1 then S2 *)
(* gives the concatenation of the buffers built from S1 and from S2.       *)
(***************************************************************************)
\* The method call that command c stands for, on a builder that holds self.
DynCall(c, self) ==
    CASE c.op = "set_clock" -> set_clock(self, c.divisor, c.clkdiv)
      [] c.op = "enable_loopback" -> enable_loopback(self)
      [] c.op = "disable_loopback" -> disable_loopback(self)
      [] c.op = "disable_3phase_data_clocking" -> disable_3phase_data_clocking(self)
      [] c.op = "enable_3phase_data_clocking" -> enable_3phase_data_clocking(self)
      [] c.op = "enable_adaptive_data_clocking" -> enable_adaptive_data_clocking(self)
      [] c.op = "disable_adaptive_data_clocking" -> disable_adaptive_data_clocking(self)
      [] c.op = "set_gpio_lower" -> set_gpio_lower(self, c.state, c.direction)
      [] c.op = "set_gpio_upper" -> set_gpio_upper(self, c.state, c.direction)
      [] c.op = "gpio_lower" -> gpio_lower(self)
      [] c.op = "gpio_upper" -> gpio_upper(self)
      [] c.op = "send_immediate" -> send_immediate(self)
      [] c.op = "wait_on_io_high" -> wait_on_io_high(self)
      [] c.op = "wait_on_io_low" -> wait_on_io_low(self)
      [] c.op = "clock_data_out" -> clock_data_out(self, c.mode, Ramp(c.payload))
      [] c.op = "clock_data_in" -> clock_data_in(self, c.mode, c.len)
      [] c.op = "clock_data" -> clock_data(self, c.mode, Ramp(c.payload))
      [] c.op = "clock_bits_out" -> clock_bits_out(self, c.mode, c.data, c.len)
      [] c.op = "clock_bits_in" -> clock_bits_in(self, c.mode, c.len)
      [] c.op = "clock_bits" -> clock_bits(self, c.mode, c.data, c.len)
      [] c.op = "clock_tms_out" -> clock_tms_out(self, c.mode, c.data, c.tdi, c.len)
      [] c.op = "clock_tms" -> clock_tms(self, c.mode, c.data, c.tdi, c.len)

\* The buffer of a builder created empty and handed the commands of s in order.
RECURSIVE BuiltAlone(_)
BuiltAlone(s) ==
    IF s = <<>> THEN new
    ELSE DynCall(s[Len(s)], BuiltAlone(SubSeq(s, 1, Len(s) - 1))).self

C20_AppendOnly ==
    /\ SubSeq(buf, 1, Len(prev.buf)) = prev.buf
    /\ (script # <<>> /\ prev.dyn = "building" /\ dyn = "building") =>
            buf = prev.buf \o BuiltAlone(<<cmd>>)
    /\ dyn = "building" =>
            \A k \in 0..Len(script) :
                as_slice(buf) = base \o BuiltAlone(SubSeq(script, 1, k))
                                     \o BuiltAlone(SubSeq(script, k + 1, Len(script)))

C20_Witness ==
    /\ dyn = "building"
    /\ Len(script) = 3
    /\ script[1].op = "send_immediate"
    /\ script[2].op = "send_immediate"
    /\ script[3].op = "clock_data"
    /\ Len(buf) = 8
    /\ buf = BuiltAlone(SubSeq(script, 1, 2)) \o BuiltAlone(SubSeq(script, 3, 3))

(***************************************************************************)
(* C21.  Along any command sequence the running read length never          *)
(* decreases from one command to the next, and an offset or range recorded *)
(* for a read-declaring command is never changed by a later command.       *)
(***************************************************************************)
C21_LedgerMonotone ==
    [][ /\ read_len' >= read_len
        /\ Len(consts') >= Len(consts)
        /\ SubSeq(consts', 1, Len(consts)) = consts
        /\ st' = "emitted" => READ_LEN' >= read_len ]_vars

C21_Witness ==
    /\ Len(script) = 3
    /\ script[1].op = "clock_data_in" /\ script[1].form = "const"
    /\ script[2].op = "gpio_upper" /\ script[2].form = "const"
    /\ script[3].op = "clock_tms_out"
    /\ st = "expanding"
    /\ prev.read_len = 4 /\ read_len = 4
    /\ prev.consts = <<[ty |-> "Range", start |-> 0, end |-> 3], [ty |-> "usize", value |-> 3]>>
    /\ consts = prev.consts

(***************************************************************************)
(* C22.  For enable_adaptive_data_clocking and                             *)
(* disable_adaptive_data_clocking the static builder produces an array and *)
(* emits the same single byte as the dynamic builder (0x96 and 0x97); and  *)
(* every operation of the dynamic builder, set_clock included, has a rule  *)
(* of the static builder with the same encoding.                           *)
(***************************************************************************)
\* The last command was handed to both builders and the dynamic one appended bytes.
BothIssued ==
    /\ script # <<>>
    /\ prev.dyn = "building" /\ dyn = "building"
    /\ prev.st = "expanding"
    /\ Appended # <<>>

C22_StaticRuleForEveryOperation ==
    /\ StaticIssued({"enable_adaptive_data_clocking"}) =>
            st # "rejected" /\ StaticAppended = <<150>>
    /\ StaticIssued({"disable_adaptive_data_clocking"}) =>
            st # "rejected" /\ StaticAppended = <<151>>
    /\ BothIssued => st # "rejected" /\ StaticAppended = Appended

(***************************************************************************)
(* C23.  In the static builder, writing a read-declaring command in the    *)
(* index-capturing form (const X = cmd(...)) instead of the plain form     *)
(* (cmd(...)) changes nothing but the definition of X: the emitted bytes,  *)
(* the read length passed to the following commands, the offsets of the    *)
(* later commands and the final READ_LEN are the same in both forms, and   *)
(* the same length assertion is applied.                                   *)
(***************************************************************************)
\* The macro rule that statement c matches, applied to the macro state m.
StaticCall(c, m) ==
    LET k == c.form = "const" IN
    CASE c.op = "set_clock" -> mpsse_no_rule(m)
      [] c.op = "enable_loopback" -> mpsse_enable_loopback(m)
      [] c.op = "disable_loopback" -> mpsse_disable_loopback(m)
      [] c.op = "disable_3phase_data_clocking" -> mpsse_disable_3phase_data_clocking(m)
      [] c.op = "enable_3phase_data_clocking" -> mpsse_enable_3phase_data_clocking(m)
      [] c.op = "enable_adaptive_data_clocking" -> mpsse_enable_adaptive_data_clocking(m)
      [] c.op = "disable_adaptive_data_clocking" -> mpsse_disable_adaptive_data_clocking(m)
      [] c.op = "set_gpio_lower" -> mpsse_set_gpio_lower(m, c.state, c.direction)
      [] c.op = "set_gpio_upper" -> mpsse_set_gpio_upper(m, c.state, c.direction)
      [] c.op = "gpio_lower" ->
            IF k THEN mpsse_const_gpio_lower(m) ELSE mpsse_gpio_lower(m)
      [] c.op = "gpio_upper" ->
            IF k THEN mpsse_const_gpio_upper(m) ELSE mpsse_gpio_upper(m)
      [] c.op = "send_immediate" -> mpsse_send_immediate(m)
      [] c.op = "wait_on_io_high" -> mpsse_wait_on_io_high(m)
      [] c.op = "wait_on_io_low" -> mpsse_wait_on_io_low(m)
      [] c.op = "clock_data_out" -> mpsse_clock_data_out(m, c.mode, Ramp(c.payload))
      [] c.op = "clock_data_in" ->
            IF k THEN mpsse_const_clock_data_in(m, c.mode, c.len)
            ELSE mpsse_clock_data_in(m, c.mode, c.len)
      [] c.op = "clock_data" ->
            IF k THEN mpsse_const_clock_data(m, c.mode, Ramp(c.payload))
            ELSE mpsse_clock_data(m, c.mode, Ramp(c.payload))
      [] c.op = "clock_bits_out" -> mpsse_clock_bits_out(m, c.mode, c.data, c.len)
      [] c.op = "clock_bits_in" ->
            IF k THEN mpsse_const_clock_bits_in(m, c.mode, c.len)
            ELSE mpsse_clock_bits_in(m, c.mode, c.len)
      [] c.op = "clock_bits" ->
            IF k THEN mpsse_const_clock_bits(m, c.mode, c.data, c.len)
            ELSE mpsse_clock_bits(m, c.mode, c.data, c.len)
      [] c.op = "clock_tms_out" -> mpsse_clock_tms_out(m, c.mode, c.data, c.tdi, c.len)
      [] c.op = "clock_tms" ->
            IF k THEN mpsse_const_clock_tms(m, c.mode, c.data, c.tdi, c.len)
            ELSE mpsse_clock_tms(m, c.mode, c.data, c.tdi, c.len)

\* The macro state after the statements of s, from the state of the entry rules.
RECURSIVE Expanded(_)
Expanded(s) ==
    IF s = <<>>
    THEN [read_len |-> 0, out |-> <<>>, consts |-> <<>>, st |-> "expanding"]
    ELSE LET m == Expanded(SubSeq(s, 1, Len(s) - 1))
         IN  IF m.st = "expanding" THEN StaticCall(s[Len(s)], m) ELSE m

\* The statements of s, each in its plain form.
AllPlain(s) == [i \in 1..Len(s) |-> [s[i] EXCEPT !.form = "plain"]]

\* The macro state the last statement was applied to.
PrevM ==
    [read_len |-> prev.read_len, out |-> prev.out, consts |-> prev.consts, st |-> prev.st]

C23_ConstFormOnlyBindsIndex ==
    /\ (StaticIssued(ReadOps) /\ cmd.form = "const") =>
            LET p == StaticCall([cmd EXCEPT !.form = "plain"], PrevM)
            IN  /\ out = p.out
                /\ read_len = p.read_len
                /\ (st = "rejected") <=> (p.st = "rejected")
                /\ p.consts = prev.consts
                /\ Len(consts) = Len(prev.consts) + 1
    /\ st = "emitted" =>
            LET r == Expanded(AllPlain(script))
            IN  /\ r.st = "expanding"
                /\ command_data = r.out
                /\ READ_LEN = r.read_len
                /\ r.consts = <<>>

C23_Witness ==
    /\ Len(script) = 2
    /\ script[1].op = "clock_tms" /\ script[1].form = "const"
    /\ script[2].op = "clock_data" /\ script[2].form = "const"
    /\ st = "emitted"
    /\ READ_LEN = 4
    /\ consts = <<[ty |-> "usize", value |-> 0], [ty |-> "Range", start |-> 1, end |-> 4]>>
    /\ command_data = Expanded(AllPlain(script)).out

(***************************************************************************)
(* C24.  For an accepted command sequence of the static builder, the       *)
(* offsets and ranges of the read-declaring commands are pairwise          *)
(* disjoint, appear in command order and tile [0, READ_LEN) with no gap    *)
(* and no overlap; so every recorded index or range lies inside a receive  *)
(* buffer of exactly READ_LEN bytes, and READ_LEN is 0 when the sequence   *)
(* has no read-declaring command.                                          *)
(***************************************************************************)
\* The response bytes [SpanStart, SpanEnd) a recorded item names.
SpanStart(item) == IF item.ty = "usize" THEN item.value ELSE item.start

SpanEnd(item) == IF item.ty = "usize" THEN item.value + 1 ELSE item.end

\* The read-declaring statements of the script, and those in the const form.
ReadStatements == {i \in 1..Len(script) : script[i].op \in ReadOps}

ConstStatements == {i \in ReadStatements : script[i].form = "const"}

\* The read length the rules have passed on after the first i statements, for
\* every i: statement i declares the response bytes [PassedOn[i - 1], PassedOn[i]).
RECURSIVE PassedOnFrom(_, _)
PassedOnFrom(m, i) ==
    IF i > Len(script) THEN <<>>
    ELSE \* the rule of statement i is applied once, and its result handed on
         LET next(m2) == <<m2.read_len>> \o PassedOnFrom(m2, i + 1)
         IN  next(IF m.st = "expanding" THEN StaticCall(script[i], m) ELSE m)

PassedOn ==
    LET e == <<0>> \o PassedOnFrom(Expanded(<<>>), 1)
    IN  [i \in 0..Len(script) |-> e[i + 1]]

C24_ReadsTileResponse ==
    st = "emitted" =>
        /\ \A i \in 1..Len(consts) :
                /\ 0 <= SpanStart(consts[i])
                /\ SpanStart(consts[i]) < SpanEnd(consts[i])
                /\ SpanEnd(consts[i]) <= READ_LEN
        /\ \A i, j \in 1..Len(consts) :
                i < j => SpanEnd(consts[i]) <= SpanStart(consts[j])
        /\ \A e \in {PassedOn} :
               /\ e[0] = 0
               /\ \A i \in 1..Len(script) :
                    IF script[i].op \in ReadOps THEN e[i - 1] < e[i] ELSE e[i - 1] = e[i]
               /\ e[Len(script)] = READ_LEN
        /\ Cardinality(ConstStatements) = Len(consts)
        /\ ConstStatements = ReadStatements =>
                /\ consts # <<>> => SpanStart(consts[1]) = 0
                /\ \A i \in 1..Len(consts) - 1 :
                        SpanEnd(consts[i]) = SpanStart(consts[i + 1])
                /\ consts # <<>> => SpanEnd(consts[Len(consts)]) = READ_LEN
        /\ ReadStatements = {} => READ_LEN = 0 /\ consts = <<>>

C24_Witness ==
    /\ st = "emitted"
    /\ Len(script) = 3
    /\ ReadStatements = {1, 2, 3}
    /\ ConstStatements = {1, 2, 3}
    /\ script[2].op = "clock_data_in"
    /\ consts = <<[ty |-> "usize", value |-> 0],
                  [ty |-> "Range", start |-> 1, end |-> 4],
                  [ty |-> "usize", value |-> 4]>>
    /\ READ_LEN = 5

(***************************************************************************)
(* C25.  The opcode bytes of all command and mode enumerations are         *)
(* pairwise distinct, so the buffer built from an empty dynamic builder by *)
(* any sequence of operations is uniquely decodable: reading an opcode and *)
(* then its fixed or length-prefixed parameters, left to right, recovers   *)
(* exactly the sequence of non-skipped commands with their arguments (the  *)
(* divisor modulo 65536, the TMS data with the tdi bit merged) and         *)
(* consumes the buffer with no byte left over.                             *)
(***************************************************************************)
OpcodesOf(enum) == {enum[v] : v \in DOMAIN enum}

VariantOf(enum, byte) == CHOOSE v \in DOMAIN enum : enum[v] = byte

Enums ==
    <<MpsseCmd, ClockDataOut, ClockBitsOut, ClockDataIn, ClockBitsIn, ClockData,
      ClockBits, ClockTMSOut, ClockTMS>>

OpcodesDistinct ==
    \A i, j \in 1..Len(Enums) : \A v \in DOMAIN Enums[i], w \in DOMAIN Enums[j] :
        (i # j \/ v # w) => Enums[i][v] # Enums[j][w]

\* A command as a reader of the buffer can know it: no form, the payload as
\* bytes, the divisor as the two bytes hold it, the tdi bit inside the data.
NoArgs == [NoCmd EXCEPT !.payload = <<>>]

AsRead(c) ==
    CASE c.op = "set_clock" ->
            [NoArgs EXCEPT !.op = c.op, !.clkdiv = c.clkdiv, !.divisor = c.divisor % 65536]
      [] c.op \in {"set_gpio_lower", "set_gpio_upper"} ->
            [NoArgs EXCEPT !.op = c.op, !.state = c.state, !.direction = c.direction]
      [] c.op \in {"clock_data_out", "clock_data"} ->
            [NoArgs EXCEPT !.op = c.op, !.mode = c.mode, !.len = c.payload[1],
                           !.payload = Ramp(c.payload)]
      [] c.op \in {"clock_data_in", "clock_bits_in"} ->
            [NoArgs EXCEPT !.op = c.op, !.mode = c.mode, !.len = c.len]
      [] c.op \in {"clock_bits_out", "clock_bits"} ->
            [NoArgs EXCEPT !.op = c.op, !.mode = c.mode, !.len = c.len, !.data = c.data]
      [] c.op \in TmsOps ->
            [NoArgs EXCEPT !.op = c.op, !.mode = c.mode, !.len = c.len,
                           !.data = BitOr(c.data, IF c.tdi THEN 128 ELSE 0)]
      [] OTHER -> [NoArgs EXCEPT !.op = c.op]

\* A command the dynamic builder returns from without appending.
Skipped(c) ==
    \/ c.op \in {"clock_data_out", "clock_data"} /\ c.payload[1] = 0
    \/ c.op \in {"clock_data_in"} \cup BitOps \cup TmsOps /\ c.len = 0

RECURSIVE NonSkipped(_)
NonSkipped(s) ==
    IF s = <<>> THEN <<>>
    ELSE LET c == s[Len(s)]
             h == NonSkipped(SubSeq(s, 1, Len(s) - 1))
         IN  IF Skipped(c) THEN h ELSE Append(h, AsRead(c))

\* The methods that append their opcode alone.
OneByteOps ==
    [ GetDataBitsLowbyte      |-> "gpio_lower",
      GetDataBitsHighbyte     |-> "gpio_upper",
      EnableLoopback          |-> "enable_loopback",
      DisableLoopback         |-> "disable_loopback",
      SendImmediate           |-> "send_immediate",
      WaitOnIOHigh            |-> "wait_on_io_high",
      WaitOnIOLow             |-> "wait_on_io_low",
      Enable3PhaseClocking    |-> "enable_3phase_data_clocking",
      Disable3PhaseClocking   |-> "disable_3phase_data_clocking",
      EnableAdaptiveClocking  |-> "enable_adaptive_data_clocking",
      DisableAdaptiveClocking |-> "disable_adaptive_data_clocking" ]

Undecodable == [cmd |-> [NoArgs EXCEPT !.op = "undecodable"], size |-> 0]

\* The command that starts at b[i], with the number of bytes it takes.
DecodeAt(b, i) ==
    LET op    == b[i]
        after == Len(b) - i
        le16  == b[i + 1] + 256 * b[i + 2]
        lenp(op1, enum) ==
            IF after >= 2 /\ after >= 2 + le16 + 1
            THEN [cmd |-> [NoArgs EXCEPT !.op = op1, !.mode = VariantOf(enum, op),
                                  !.len = le16 + 1,
                                  !.payload = SubSeq(b, i + 3, i + 2 + le16 + 1)],
                  size |-> 3 + le16 + 1]
            ELSE Undecodable
        bits(op1, enum) ==
            IF after >= 2
            THEN [cmd |-> [NoArgs EXCEPT !.op = op1, !.mode = VariantOf(enum, op),
                                  !.len = b[i + 1] + 1, !.data = b[i + 2]],
                  size |-> 3]
            ELSE Undecodable
        gpio(op1) ==
            IF after >= 2
            THEN [cmd |-> [NoArgs EXCEPT !.op = op1, !.state = b[i + 1],
                                  !.direction = b[i + 2]],
                  size |-> 3]
            ELSE Undecodable
    IN  CASE op \in {MpsseCmd.EnableClockDivide, MpsseCmd.DisableClockDivide} ->
                IF after >= 3 /\ b[i + 1] = MpsseCmd.SetClockFrequency
                THEN [cmd |-> [NoArgs EXCEPT
                                  !.op = "set_clock",
                                  !.clkdiv = IF op = MpsseCmd.EnableClockDivide
                                             THEN "SomeTrue" ELSE "SomeFalse",
                                  !.divisor = b[i + 2] + 256 * b[i + 3]],
                      size |-> 4]
                ELSE Undecodable
          [] op = MpsseCmd.SetClockFrequency ->
                IF after >= 2
                THEN [cmd |-> [NoArgs EXCEPT !.op = "set_clock", !.divisor = le16],
                      size |-> 3]
                ELSE Undecodable
          [] op = MpsseCmd.SetDataBitsLowbyte -> gpio("set_gpio_lower")
          [] op = MpsseCmd.SetDataBitsHighbyte -> gpio("set_gpio_upper")
          [] \E v \in DOMAIN OneByteOps : MpsseCmd[v] = op ->
                [cmd |-> [NoArgs EXCEPT
                             !.op = OneByteOps[CHOOSE v \in DOMAIN OneByteOps :
                                                   MpsseCmd[v] = op]],
                 size |-> 1]
          [] op \in OpcodesOf(ClockDataOut) -> lenp("clock_data_out", ClockDataOut)
          [] op \in OpcodesOf(ClockData) -> lenp("clock_data", ClockData)
          [] op \in OpcodesOf(ClockDataIn) ->
                IF after >= 2
                THEN [cmd |-> [NoArgs EXCEPT !.op = "clock_data_in",
                                      !.mode = VariantOf(ClockDataIn, op),
                                      !.len = le16 + 1],
                      size |-> 3]
                ELSE Undecodable
          [] op \in OpcodesOf(ClockBitsIn) ->
                IF after >= 1
                THEN [cmd |-> [NoArgs EXCEPT !.op = "clock_bits_in",
                                      !.mode = VariantOf(ClockBitsIn, op),
                                      !.len = b[i + 1] + 1],
                      size |-> 2]
                ELSE Undecodable
          [] op \in OpcodesOf(ClockBitsOut) -> bits("clock_bits_out", ClockBitsOut)
          [] op \in OpcodesOf(ClockBits) -> bits("clock_bits", ClockBits)
          [] op \in OpcodesOf(ClockTMSOut) -> bits("clock_tms_out", ClockTMSOut)
          [] op \in OpcodesOf(ClockTMS) -> bits("clock_tms", ClockTMS)
          [] OTHER -> Undecodable

\* The commands read from b[i..], left to right; a byte that starts no command,
\* or a command cut short, ends the reading with an "undecodable" entry.
RECURSIVE Decode(_, _)
Decode(b, i) ==
    IF i > Len(b) THEN <<>>
    ELSE LET u == DecodeAt(b, i)
         IN  IF u.size = 0 THEN <<u.cmd>>
             ELSE <<u.cmd>> \o Decode(b, i + u.size)

C25_UniquelyDecodable ==
    /\ OpcodesDistinct
    /\ (dyn = "building" /\ base = <<>>) => Decode(buf, 1) = NonSkipped(script)

C25_Witness ==
    /\ dyn = "building" /\ base = <<>>
    /\ Len(script) = 3
    /\ script[1].op = "set_clock" /\ script[1].divisor = 74565
    /\ script[2].op = "clock_data_in" /\ script[2].len = 0
    /\ script[3].op = "clock_tms" /\ script[3].tdi /\ script[3].data = 10
    /\ buf = <<139, 134, 69, 35, 106, 3, 138>>
    /\ Len(Decode(buf, 1)) = 2
    /\ Decode(buf, 1)[1].divisor = 9029
    /\ Decode(buf, 1)[2].data = 138
====
